---- MODULE Spec2Model ----
(***************************************************************************)
(* Dual-provider OAuth session and token lifecycle of FRC2713/basecamp.    *)
(*                                                                         *)
(* The server is stateless: all state lives in the cookie session the      *)
(* browser holds.  Every route handler is a function from the session read *)
(* from the request cookie, the request parameters, the environment, the   *)
(* clock and the provider's answer to an in-memory session and a response. *)
(* The browser replaces its cookie only when the response is a Response    *)
(* object that carries a Set-Cookie header.                                *)
(*                                                                         *)
(* Absent session keys and null parameters are the falsy values "" and 0,  *)
(* which the code itself does not tell apart from absence (!x, x || d).    *)
(***************************************************************************)
EXTENDS Integers, Sequences, FiniteSets, TLC

\* ------------------------------------------------------------------ bounds
MaxNow == 3          \* the clock runs over 1 .. MaxNow ticks
MaxGateRedirects == 3 \* the observer's redirect count saturates here
MaxContinuations == 2 \* the count of continuations the opener ran saturates here

\* --------------------------------------------------------------- constants
Tick == 60 * 1000                      \* one clock step of the model, in ms
REFRESH_BUFFER_MS == 5 * 60 * 1000
GateLimit == 2

Providers == {"onshape", "basecamp"}
Other(p) == IF p = "onshape" THEN "basecamp" ELSE "onshape"


\* ------------------------------------------------------------ environment
\* process.env of the server: which OAuth variables are configured, and
\* for Basecamp the ids of the card table (BASECAMP_ACCOUNT_ID,
\* BASECAMP_PROJECT_ID, BASECAMP_CARD_TABLE_ID)
EnvFull ==
  [onshape |-> [clientId |-> TRUE, clientSecret |-> TRUE, redirectUri |-> TRUE],
   basecamp |-> [clientId |-> TRUE, clientSecret |-> TRUE, redirectUri |-> TRUE,
                 accountId |-> TRUE, projectId |-> TRUE, cardTableId |-> TRUE]]
EnvNoSecret ==
  [EnvFull EXCEPT !["onshape"].clientSecret = FALSE, !["basecamp"].clientSecret = FALSE]
EnvNoCardTable ==
  [EnvFull EXCEPT !["basecamp"].accountId = FALSE, !["basecamp"].projectId = FALSE,
                  !["basecamp"].cardTableId = FALSE]
EnvChoices == {EnvFull, EnvNoSecret, EnvNoCardTable}

\* ------------------------------------------------- the providers' answers
\* what the token endpoint answers: a token response { access_token,
\* refresh_token, expires_in }, or a failure: a non-2xx answer with the body
\* "denied", or no answer at all (fetch throws)
TokenResponses ==
  {[ok |-> TRUE, access_token |-> "a1", refresh_token |-> "r1", expires_in |-> 6 * 60,
    failure |-> ""],
   [ok |-> TRUE, access_token |-> "a2", refresh_token |-> "r2", expires_in |-> 0,
    failure |-> ""]}
TokenFailure ==
  [ok |-> FALSE, access_token |-> "", refresh_token |-> "", expires_in |-> 0, failure |-> "http"]
FetchFailure ==
  [ok |-> FALSE, access_token |-> "", refresh_token |-> "", expires_in |-> 0, failure |-> "fetch"]
ProviderOutcomes == TokenResponses \cup {TokenFailure, FetchFailure}

\* error.message of what a failed call of Basecamp's token endpoint throws:
\* the Error of exchangeCodeForToken / refreshAccessToken, or fetch's own
ExchangeErrorMessage(out) ==
  IF out.failure = "fetch" THEN "fetch failed" ELSE "Token exchange failed: denied"
RefreshErrorMessage(out) ==
  IF out.failure = "fetch" THEN "fetch failed" ELSE "Token refresh failed: denied"

\* ---------------------------------------------------------------- session
EmptySession ==
  [onshapeAccessToken |-> "", onshapeRefreshToken |-> "", onshapeExpiresAt |-> 0,
   accessToken |-> "", refreshToken |-> "", expiresAt |-> 0,
   onshapeOauthState |-> "", oauthState |-> "",
   oauthRedirect |-> "", signInRedirect |-> "",
   onshapeAuthRedirectCount |-> 0, accountId |-> ""]

\* the three session keys of a provider's tokens
Triple(s, p) ==
  IF p = "onshape"
  THEN <<s.onshapeAccessToken, s.onshapeRefreshToken, s.onshapeExpiresAt>>
  ELSE <<s.accessToken, s.refreshToken, s.expiresAt>>

Nonce(s, p) == IF p = "onshape" THEN s.onshapeOauthState ELSE s.oauthState

isOnshapeAuthenticated(s) == s.onshapeAccessToken # ""
isBasecampAuthenticated(s) == s.accessToken # ""

\* ---------------------------------------------------------- token refresh
\* variant: the buffer is added to the expiry instead of subtracted
needsRefresh_BufferAdded(expiresAt, now) ==
  IF expiresAt = 0 THEN TRUE ELSE now >= expiresAt + REFRESH_BUFFER_MS

needsRefresh(expiresAt, now) ==
  IF expiresAt = 0 THEN TRUE ELSE now >= expiresAt - REFRESH_BUFFER_MS

\* result of a refresh-if-needed call: the session object afterwards, what
\* the call returned ("null", "token") or that it threw, the token returned,
\* and whether the provider's token endpoint was called
RefreshResult(s, result, token, called) ==
  [session |-> s, result |-> result, token |-> token, called |-> called]

\* variant: a failed refresh leaves onshapeExpiresAt in the session
refreshOnshape_ExpiryKept(session, env, now, out) ==
  IF session.onshapeAccessToken = "" \/ session.onshapeRefreshToken = ""
  THEN RefreshResult(session, "null", "", FALSE)
  ELSE IF ~needsRefresh(session.onshapeExpiresAt, now)
  THEN RefreshResult(session, "token", session.onshapeAccessToken, FALSE)
  ELSE IF ~env["onshape"].clientId \/ ~env["onshape"].clientSecret
  THEN RefreshResult(session, "throw", "", FALSE)
  ELSE IF out.ok
  THEN RefreshResult([session EXCEPT !.onshapeAccessToken = out.access_token,
                                      !.onshapeRefreshToken = out.refresh_token,
                                      !.onshapeExpiresAt = now + out.expires_in * 1000],
                     "token", out.access_token, TRUE)
  ELSE RefreshResult([session EXCEPT !.onshapeAccessToken = "",
                                      !.onshapeRefreshToken = ""],
                     "throw", "", TRUE)

refreshOnshapeTokenIfNeededWithSession(session, env, now, out) ==
  IF session.onshapeAccessToken = "" \/ session.onshapeRefreshToken = ""
  THEN RefreshResult(session, "null", "", FALSE)
  ELSE IF ~needsRefresh(session.onshapeExpiresAt, now)
  THEN RefreshResult(session, "token", session.onshapeAccessToken, FALSE)
  ELSE IF ~env["onshape"].clientId \/ ~env["onshape"].clientSecret
  THEN RefreshResult(session, "throw", "", FALSE)
  ELSE IF out.ok
  THEN RefreshResult([session EXCEPT !.onshapeAccessToken = out.access_token,
                                      !.onshapeRefreshToken = out.refresh_token,
                                      !.onshapeExpiresAt = now + out.expires_in * 1000],
                     "token", out.access_token, TRUE)
  ELSE RefreshResult([session EXCEPT !.onshapeAccessToken = "",
                                      !.onshapeRefreshToken = "",
                                      !.onshapeExpiresAt = 0],
                     "throw", "", TRUE)

\* variant: a failed refresh is thrown on without clearing the tokens
refreshBasecamp_NotCleared(session, env, now, out) ==
  IF session.accessToken = "" \/ session.refreshToken = ""
  THEN RefreshResult(session, "null", "", FALSE)
  ELSE IF ~needsRefresh(session.expiresAt, now)
  THEN RefreshResult(session, "token", session.accessToken, FALSE)
  ELSE IF ~env["basecamp"].clientId \/ ~env["basecamp"].clientSecret
  THEN RefreshResult(session, "throw", "", FALSE)
  ELSE IF out.ok
  THEN RefreshResult([session EXCEPT !.accessToken = out.access_token,
                                      !.refreshToken = out.refresh_token,
                                      !.expiresAt = now + out.expires_in * 1000],
                     "token", out.access_token, TRUE)
  ELSE RefreshResult(session, "throw", "", TRUE)

\* variant: a failed refresh clears the tokens of both providers
refreshBasecamp_ClearsBoth(session, env, now, out) ==
  IF session.accessToken = "" \/ session.refreshToken = ""
  THEN RefreshResult(session, "null", "", FALSE)
  ELSE IF ~needsRefresh(session.expiresAt, now)
  THEN RefreshResult(session, "token", session.accessToken, FALSE)
  ELSE IF ~env["basecamp"].clientId \/ ~env["basecamp"].clientSecret
  THEN RefreshResult(session, "throw", "", FALSE)
  ELSE IF out.ok
  THEN RefreshResult([session EXCEPT !.accessToken = out.access_token,
                                      !.refreshToken = out.refresh_token,
                                      !.expiresAt = now + out.expires_in * 1000],
                     "token", out.access_token, TRUE)
  ELSE RefreshResult([session EXCEPT !.accessToken = "",
                                      !.refreshToken = "",
                                      !.expiresAt = 0,
                                      !.onshapeAccessToken = "",
                                      !.onshapeRefreshToken = "",
                                      !.onshapeExpiresAt = 0],
                     "throw", "", TRUE)

refreshBasecampTokenIfNeededWithSession(session, env, now, out) ==
  IF session.accessToken = "" \/ session.refreshToken = ""
  THEN RefreshResult(session, "null", "", FALSE)
  ELSE IF ~needsRefresh(session.expiresAt, now)
  THEN RefreshResult(session, "token", session.accessToken, FALSE)
  ELSE IF ~env["basecamp"].clientId \/ ~env["basecamp"].clientSecret
  THEN RefreshResult(session, "throw", "", FALSE)
  ELSE IF out.ok
  THEN RefreshResult([session EXCEPT !.accessToken = out.access_token,
                                      !.refreshToken = out.refresh_token,
                                      !.expiresAt = now + out.expires_in * 1000],
                     "token", out.access_token, TRUE)
  ELSE RefreshResult([session EXCEPT !.accessToken = "",
                                      !.refreshToken = "",
                                      !.expiresAt = 0],
                     "throw", "", TRUE)

refreshTokenIfNeededWithSession(p, session, env, now, out) ==
  IF p = "onshape"
  THEN refreshOnshapeTokenIfNeededWithSession(session, env, now, out)
  ELSE refreshBasecampTokenIfNeededWithSession(session, env, now, out)

\* -------------------------------------------------------------- responses
\* What a handler hands back.  kind "redirect" and "json" are Response
\* objects, whose Set-Cookie header the browser applies; kind "data" is a
\* plain object returned from a loader (a "headers" key inside it is loader
\* data, recorded as dataCookie, and sets no cookie); kind "throw" is an
\* uncaught exception (a 500 from the framework).
BaseResp ==
  [kind |-> "data", status |-> 200, to |-> "", error |-> "", code |-> "", state |-> "",
   success |-> FALSE, setCookie |-> "none", dataCookie |-> FALSE,
   tokenCall |-> FALSE, refreshCalls |-> {},
   onshapeAuthenticated |-> FALSE, basecampAuthenticated |-> FALSE,
   basecampError |-> ""]

Redirect(to, error, setCookie) ==
  [BaseResp EXCEPT !.kind = "redirect", !.status = 302, !.to = to, !.error = error,
                   !.setCookie = setCookie]
Json(status, success, error, setCookie) ==
  [BaseResp EXCEPT !.kind = "json", !.status = status, !.success = success,
                   !.error = error, !.setCookie = setCookie]
Throw(error) ==
  [BaseResp EXCEPT !.kind = "throw", !.status = 500, !.error = error]

Out(s, r) == [session |-> s, resp |-> r]

\* commitSession serializes the session, destroySession yields the cookie
\* that clears it; either reaches the browser only as a Set-Cookie header
ApplySetCookie(jar, out) ==
  IF out.resp.setCookie = "commit" THEN out.session
  ELSE IF out.resp.setCookie = "destroy" THEN EmptySession
  ELSE jar

OrSlash(x) == IF x = "" THEN "/" ELSE x

\* ------------------------------------------- callback handler (Onshape)
\* GET /auth/onshape/callback?code&state&error
OnshapeCallbackLoader(session, code, state, error, env, now, out) ==
  IF error # ""
  THEN Out(session, Redirect("/?error", error, "none"))
  ELSE IF code = ""
  THEN Out(session, Redirect("/?error", "No authorization code received", "none"))
  ELSE IF state = "" \/ state # session.onshapeOauthState
  THEN IF session.onshapeOauthState = ""
       \* destroySession(session) is awaited and its cookie dropped
       THEN Out(session, Redirect("/auth/onshape", "", "none"))
       ELSE Out(session, Redirect("/?error", "Invalid state parameter. Please try again.", "none"))
  ELSE IF ~env["onshape"].clientId \/ ~env["onshape"].clientSecret \/ ~env["onshape"].redirectUri
  THEN Out(session, Throw("Missing Onshape OAuth environment variables"))
  ELSE IF out.ok
  THEN Out([session EXCEPT !.onshapeAccessToken = out.access_token,
                            !.onshapeRefreshToken = out.refresh_token,
                            !.onshapeExpiresAt = now + out.expires_in * 1000,
                            !.onshapeOauthState = "",
                            !.onshapeAuthRedirectCount = 0],
           [Redirect("/signin", "", "commit") EXCEPT !.tokenCall = TRUE])
  \* destroySession(session) is awaited and its cookie dropped
  ELSE Out(session,
           [Redirect("/?error", "Failed to exchange authorization code", "none")
              EXCEPT !.tokenCall = TRUE])

\* ------------------------------------------ exchange endpoint (Basecamp)
\* POST /auth/exchange  { code, state }
ExchangeAction(session, method, code, state, env, now, out) ==
  IF method # "POST"
  THEN Out(session, Json(405, FALSE, "Method not allowed", "none"))
  ELSE IF code = ""
  THEN Out(session, Json(400, FALSE, "No authorization code provided", "none"))
  ELSE IF state = ""
  THEN Out(session, Json(400, FALSE, "No state parameter provided", "none"))
  ELSE IF session.oauthState = "" \/ state # session.oauthState
  THEN Out(session, Json(400, FALSE, "Invalid state parameter", "none"))
  ELSE IF ~env["basecamp"].clientId \/ ~env["basecamp"].clientSecret \/ ~env["basecamp"].redirectUri
  THEN Out(session, Json(500, FALSE, "Missing Basecamp OAuth environment variables", "none"))
  ELSE IF out.ok
  THEN Out([session EXCEPT !.accessToken = out.access_token,
                            !.refreshToken = out.refresh_token,
                            !.expiresAt = now + out.expires_in * 1000,
                            !.oauthState = "",
                            !.oauthRedirect = ""],
           [Json(200, TRUE, "", "commit") EXCEPT !.to = OrSlash(session.oauthRedirect),
                                                 !.tokenCall = TRUE])
  ELSE Out(session, [Json(500, FALSE, ExchangeErrorMessage(out), "none")
                       EXCEPT !.tokenCall = TRUE])

\* --------------------------------------- callback page (Basecamp, popup)
\* GET /auth/callback?code&state&error : the loader
AuthCallbackLoader(session, code, state, error, env, now, out) ==
  IF error # ""
  THEN Out(session, [BaseResp EXCEPT !.error = error])
  ELSE IF code # "" /\ state # "" /\ session.oauthState # "" /\ state = session.oauthState
          /\ env["basecamp"].clientId /\ env["basecamp"].clientSecret /\ env["basecamp"].redirectUri
  THEN IF out.ok
       THEN Out([session EXCEPT !.accessToken = out.access_token,
                                 !.refreshToken = out.refresh_token,
                                 !.expiresAt = now + out.expires_in * 1000,
                                 !.oauthState = "",
                                 !.oauthRedirect = ""],
                [Redirect(OrSlash(session.oauthRedirect), "", "commit") EXCEPT !.tokenCall = TRUE])
       \* the exchange error is logged and the loader falls through
       ELSE Out(session, [BaseResp EXCEPT !.code = code, !.state = state, !.tokenCall = TRUE])
  ELSE Out(session, [BaseResp EXCEPT !.code = code, !.state = state])

\* the callback page's effect in the browser, given the loader's data:
\* relay to the opener when in a popup, else leave the page
AuthCallbackEffect(resp, isPopup) ==
  IF resp.kind # "data" THEN [act |-> "none", code |-> "", state |-> "", error |-> ""]
  ELSE IF isPopup
  THEN IF resp.error # ""
       THEN [act |-> "postMessage", code |-> "", state |-> "", error |-> resp.error]
       ELSE IF resp.code # "" /\ resp.state # ""
       THEN [act |-> "postMessage", code |-> resp.code, state |-> resp.state, error |-> ""]
       ELSE [act |-> "postMessage", code |-> "", state |-> "",
             error |-> "No authorization code received"]
  ELSE IF resp.error = ""
       THEN [act |-> "navigate:/", code |-> "", state |-> "", error |-> ""]
       ELSE [act |-> "navigate:/?error", code |-> "", state |-> "", error |-> resp.error]

\* ------------------------------------------------------------ initiators
OnshapeAuthorizeUrl == "https://oauth.onshape.com/oauth/authorize"

\* GET /auth/onshape?redirect : nonce is randomBytes(32).toString("hex")
AuthOnshapeLoader(session, redirectTo, env, nonce) ==
  LET s1 == IF redirectTo # "" THEN [session EXCEPT !.signInRedirect = redirectTo] ELSE session
  IN IF s1.onshapeAccessToken # ""
     THEN Out(s1, Redirect(OrSlash(s1.signInRedirect), "", "commit"))
     ELSE IF ~env["onshape"].clientId \/ ~env["onshape"].redirectUri
     THEN Out(s1, Throw("Missing ONSHAPE_CLIENT_ID or ONSHAPE_REDIRECT_URI environment variables"))
     ELSE Out([s1 EXCEPT !.onshapeOauthState = nonce],
              [Redirect(OnshapeAuthorizeUrl, "", "commit") EXCEPT !.state = nonce])

\* POST /auth  { redirectTo } : starts the Basecamp flow
AuthAction(session, method, redirectTo, nonce) ==
  IF method # "POST"
  THEN Out(session, Json(405, FALSE, "Method not allowed", "none"))
  ELSE Out([session EXCEPT !.oauthState = nonce,
                            !.oauthRedirect = IF redirectTo # "" /\ redirectTo # "/"
                                              THEN redirectTo ELSE @],
           [Json(200, FALSE, "", "commit") EXCEPT !.state = nonce])

\* GET /auth?redirect&state : the page that opens the Basecamp popup.  In the
\* loader's data, state is the nonce the authorization URL carries ("" when
\* authUrl is null) and to is redirectTo.
AuthLoader(session, redirectParam, stateParam, env) ==
  IF session.accessToken # ""
  THEN Out(session, Redirect(OrSlash(redirectParam), "", "commit"))
  ELSE IF ~env["basecamp"].clientId \/ ~env["basecamp"].redirectUri
  THEN Out(session, Throw("Missing BASECAMP_CLIENT_ID or BASECAMP_REDIRECT_URI environment variables"))
  ELSE Out(session, [BaseResp EXCEPT !.to = OrSlash(redirectParam), !.state = stateParam])

\* GET /auth/redirect?url&state : the popup's cookie-priming bridge
AuthRedirectLoader(session, targetUrl, stateFromUrl) ==
  IF targetUrl = ""
  THEN Out(session, Redirect("/?error", "Missing redirect URL", "none"))
  ELSE Out(IF stateFromUrl # "" /\ session.oauthState = ""
           THEN [session EXCEPT !.oauthState = stateFromUrl] ELSE session,
           Redirect(targetUrl, "", "commit"))

\* GET /auth/logout
LogoutLoader(session) == Out(session, Redirect("/", "", "destroy"))

\* ------------------------------------------------------ the dual-auth gate
GateLoopError ==
  "Unable to authenticate with Onshape. Please refresh the page or try opening in a new window."

\* GET /signin?redirect : where the Onshape callback lands
SigninLoader(request, urlRedirect) ==
  LET sessionRedirect == request.signInRedirect
      redirectTo == IF urlRedirect # "" THEN urlRedirect
                    ELSE IF sessionRedirect # "" THEN sessionRedirect ELSE "/mfg/parts"
      s1 == IF urlRedirect # "" /\ urlRedirect # "/"
            THEN [request EXCEPT !.signInRedirect = urlRedirect]
            ELSE IF sessionRedirect = "" /\ redirectTo # "/"
            THEN [request EXCEPT !.signInRedirect = redirectTo]
            ELSE request
  IN IF isBasecampAuthenticated(request) /\ isOnshapeAuthenticated(request)
     THEN Out([s1 EXCEPT !.signInRedirect = ""], Redirect(redirectTo, "", "commit"))
     ELSE Out(s1, [BaseResp EXCEPT !.to = redirectTo, !.dataCookie = TRUE,
                                   !.onshapeAuthenticated = isOnshapeAuthenticated(request),
                                   !.basecampAuthenticated = isBasecampAuthenticated(request)])

\* GET /  (home): request is the session of the request's cookie, which
\* isOnshapeAuthenticated(request) and isBasecampAuthenticated(request) read
HomeLoader(request, hasError, errorParam, env, now, outOnshape, outBasecamp) ==
  IF hasError
  THEN Out([request EXCEPT !.onshapeAuthRedirectCount = 0],
           [BaseResp EXCEPT !.error = errorParam, !.dataCookie = TRUE,
                            !.basecampAuthenticated = isBasecampAuthenticated(request)])
  ELSE IF ~isOnshapeAuthenticated(request)
  THEN IF request.onshapeAuthRedirectCount < GateLimit
       THEN Out([request EXCEPT !.onshapeAuthRedirectCount = @ + 1],
                Redirect("/auth/onshape", "", "commit"))
       ELSE Out([request EXCEPT !.onshapeAuthRedirectCount = 0],
                [BaseResp EXCEPT !.error = GateLoopError, !.dataCookie = TRUE])
  ELSE LET s0 == [request EXCEPT !.onshapeAuthRedirectCount = 0]
           r1 == refreshOnshapeTokenIfNeededWithSession(s0, env, now, outOnshape)
           \* a throw of the first refresh skips the second
           r2 == IF r1.result = "throw"
                 THEN RefreshResult(r1.session, "null", "", FALSE)
                 ELSE refreshBasecampTokenIfNeededWithSession(r1.session, env, now, outBasecamp)
       IN Out(r2.session,
              [BaseResp EXCEPT !.onshapeAuthenticated = TRUE,
                               !.basecampAuthenticated = isBasecampAuthenticated(request),
                               !.dataCookie = TRUE,
                               !.refreshCalls = (IF r1.called THEN {"onshape"} ELSE {})
                                                \cup (IF r2.called THEN {"basecamp"} ELSE {})])

\* what the Basecamp API answers to the request of the card table: no
\* answer at all (fetch throws), or a status with its Reason header, the
\* message and error fields of a JSON error body, and whether the data the
\* client parses from a 2xx body is null
ApiOutcomes ==
  {[answered |-> TRUE, status |-> 200, reason |-> "", message |-> "", error |-> "", data |-> "table"],
   [answered |-> TRUE, status |-> 200, reason |-> "", message |-> "", error |-> "", data |-> "null"],
   [answered |-> TRUE, status |-> 304, reason |-> "", message |-> "", error |-> "", data |-> "null"],
   [answered |-> TRUE, status |-> 401, reason |-> "", message |-> "", error |-> "", data |-> "null"],
   [answered |-> TRUE, status |-> 403, reason |-> "", message |-> "", error |-> "Forbidden", data |-> "null"],
   [answered |-> TRUE, status |-> 403, reason |-> "", message |-> "Denied", error |-> "Forbidden", data |-> "null"],
   [answered |-> TRUE, status |-> 404, reason |-> "", message |-> "", error |-> "", data |-> "null"],
   [answered |-> TRUE, status |-> 404, reason |-> "Account Inactive", message |-> "", error |-> "", data |-> "null"],
   [answered |-> FALSE, status |-> 0, reason |-> "", message |-> "", error |-> "", data |-> "null"]}

\* BasecampClient.request: the message of what it throws, "" when it
\* returns (304 is passed through with null data; 429 and 5xx are answered
\* so on every retry)
ApiErrorMessage(api) ==
  IF ~api.answered THEN "fetch failed"
  ELSE IF api.status = 304 THEN ""
  ELSE IF api.status = 429 THEN "Rate limit exceeded"
  ELSE IF api.status >= 500 /\ api.status < 600
  THEN "Server error: " \o ToString(api.status)
  ELSE IF api.status = 404
  THEN IF api.reason = "Account Inactive"
       THEN "Account is inactive (expired trial or suspended)"
       ELSE "Resource not found (deleted, missing permissions, or invalid ID)"
  ELSE IF api.status < 200 \/ api.status >= 300
  THEN IF api.message # "" THEN api.message
       ELSE IF api.error # "" THEN api.error
       ELSE "Request failed with status " \o ToString(api.status)
  ELSE ""

\* Basecamp card data of the parts page: refreshes on a session object of
\* its own, which is never committed, then requests the card table when
\* the token and the ids are there (the account id is the session's or
\* else the environment's); reading the columns of null data throws a
\* TypeError; the cards of a column that fail to load are only logged.
\* The result: the session object afterwards, the error returned ("" for
\* null), whether the token endpoint was called, and the bearer token of the
\* card table request ("" when none was made)
loadBasecampData(request, env, now, outBasecamp, api) ==
  IF ~isBasecampAuthenticated(request)
  THEN [session |-> request, error |-> "", called |-> FALSE, apiToken |-> ""]
  ELSE LET r == refreshBasecampTokenIfNeededWithSession(request, env, now, outBasecamp)
           accessToken == r.session.accessToken
           accountId == r.session.accountId # "" \/ env["basecamp"].accountId
       IN IF r.result = "throw"
          THEN [session |-> r.session,
                error |-> IF r.called THEN RefreshErrorMessage(outBasecamp)
                          ELSE "Missing Basecamp OAuth credentials",
                called |-> r.called, apiToken |-> ""]
          ELSE IF accessToken # "" /\ accountId
                  /\ env["basecamp"].projectId /\ env["basecamp"].cardTableId
          THEN [session |-> r.session,
                error |-> IF ApiErrorMessage(api) # "" THEN ApiErrorMessage(api)
                          ELSE IF api.status = 304 \/ api.data = "null"
                          THEN "Cannot read properties of null (reading 'lists')"
                          ELSE "",
                called |-> r.called, apiToken |-> accessToken]
          ELSE [session |-> r.session, error |-> "", called |-> r.called, apiToken |-> ""]

\* GET /mfg/parts
MfgPartsLoader(request, validQuery, env, now, outBasecamp, api) ==
  IF ~isOnshapeAuthenticated(request)
  THEN Out(request, Redirect("/auth/onshape?redirect=/mfg/parts", "", "none"))
  ELSE IF ~validQuery
  THEN Out(request, [BaseResp EXCEPT !.error = "validation.error"])
  ELSE LET r == loadBasecampData(request, env, now, outBasecamp, api)
       IN Out(request,
              [BaseResp EXCEPT !.dataCookie = TRUE,
                               !.basecampError = r.error,
                               !.refreshCalls = IF r.called THEN {"basecamp"} ELSE {}])

\* ---------------------------------------------------------------- inputs
Methods == {"POST", "GET"}
Codes == {"", "c1"}
Nonces == {"n1", "n2"}
StateParams == {""} \cup Nonces
ErrorParams == {"", "access_denied"}
SignInTargets == {"", "/mfg/parts"}
OauthTargets == {"", "/signin"}

\* a request: its method and the parameters the routes read from its URL or
\* body (redirect is ?redirect of a page load and redirectTo of POST /auth)
NoReq == [method |-> "GET", code |-> "", state |-> "", error |-> "", redirect |-> ""]
NoClient == [act |-> "none", code |-> "", state |-> "", error |-> ""]

\* ------------------------------------------------------------ the browser
\* A window shows, or is loading (pending), a URL: its path and the query
\* parameters the routes read; of the page shown it keeps the two
\* authentication flags of the loader data, which the page renders its
\* buttons from.
NoNav ==
  [path |-> "", redirect |-> "", state |-> "", code |-> "", error |-> "", pending |-> FALSE,
   basecampAuth |-> FALSE, onshapeAuth |-> FALSE]
Goto(path) == [NoNav EXCEPT !.path = path, !.pending = TRUE]

\* the URL a redirect response names
Follow(resp) ==
  IF resp.to = "/?error" THEN [Goto("/") EXCEPT !.error = resp.error]
  ELSE IF resp.to = "/auth/onshape?redirect=/mfg/parts"
  THEN [Goto("/auth/onshape") EXCEPT !.redirect = "/mfg/parts"]
  ELSE [Goto(resp.to) EXCEPT !.state = resp.state]

\* the window after the response to its page load: it follows a redirect,
\* and renders everything else
Shown(nav, resp) ==
  IF resp.kind = "redirect" THEN Follow(resp)
  ELSE [nav EXCEPT !.pending = FALSE,
                   !.basecampAuth = resp.basecampAuthenticated,
                   !.onshapeAuth = resp.onshapeAuthenticated]

ReqOf(nav) ==
  [method |-> "GET", code |-> nav.code, state |-> nav.state, error |-> nav.error,
   redirect |-> nav.redirect]

Windows == {"main", "popup"}
BasecampAuthorizeUrl == "https://launchpad.37signals.com/authorization/new"

\* message events: event.origin and the fields of event.data the opener reads
AppOrigin == "https://app.example"
ForeignOrigin == "https://foreign.example"
Event(origin, code, state, error) ==
  [origin |-> origin, code |-> code, state |-> state, error |-> error]
NoEvent == Event("", "", "", "")
ForeignEvents ==
  {Event(ForeignOrigin, "c1", "n1", ""), Event(ForeignOrigin, "", "", "access_denied")}

\* tabs of the browser that share the cookie; a request in flight carries
\* the cookie the browser held when it sent the request
Tabs == {"tab1", "tab2"}
NoFlight == [op |-> "none", req |-> NoReq, cookie |-> EmptySession]
Flight(op, req, cookie) == [op |-> op, req |-> req, cookie |-> cookie]

\* The browser: its two windows; of the /auth page in the main window (the
\* opener) the effect still to run, the registered message listener and
\* poll interval, the messages posted to it and not yet dispatched, the
\* fetch it is awaiting (POST /auth or POST /auth/exchange, with the cookie
\* it was sent with), the event dispatched last and how often each of its
\* continuations ran; of the callback page in the popup the effect still to
\* run; and, of every tab, the request it has sent and not yet got the
\* response to.
NoneRan == [exchange |-> 0, fallback |-> 0, error |-> 0]
InitBrowser ==
  [main |-> NoNav, popup |-> NoNav, popupWindow |-> "none", closeTimer |-> FALSE,
   effect |-> "none", popupEffect |-> NoClient, redirectTo |-> "",
   listening |-> FALSE, polling |-> FALSE,
   inbox |-> {}, fetch |-> NoFlight, delivered |-> NoEvent, ran |-> NoneRan,
   flights |-> [t \in Tabs |-> NoFlight]]

Ran(n) == IF n < MaxContinuations THEN n + 1 ELSE n

\* variant: the handler takes the message's origin on trust
messageHandler_AnyOrigin(b, event, cookie) ==
  IF event.error # ""
  THEN [b EXCEPT !.polling = FALSE, !.listening = FALSE,
                 !.main = [Goto("/") EXCEPT !.error = event.error],
                 !.ran.error = Ran(@)]
  ELSE IF event.code # "" /\ event.state # ""
  THEN [b EXCEPT !.polling = FALSE, !.listening = FALSE,
                 !.fetch = Flight("exchange",
                                 [method |-> "POST", code |-> event.code,
                                  state |-> event.state, error |-> "", redirect |-> ""],
                                 cookie),
                 !.ran.exchange = Ran(@)]
  ELSE b

\* variant: a relayed code removes the listener and leaves the interval
messageHandler_PollKept(b, event, cookie) ==
  IF event.origin # AppOrigin THEN b
  ELSE IF event.error # ""
  THEN [b EXCEPT !.polling = FALSE, !.listening = FALSE,
                 !.main = [Goto("/") EXCEPT !.error = event.error],
                 !.ran.error = Ran(@)]
  ELSE IF event.code # "" /\ event.state # ""
  THEN [b EXCEPT !.listening = FALSE,
                 !.fetch = Flight("exchange",
                                 [method |-> "POST", code |-> event.code,
                                  state |-> event.state, error |-> "", redirect |-> ""],
                                 cookie),
                 !.ran.exchange = Ran(@)]
  ELSE b

\* the opener's message listener, up to its await: it tears listener and
\* interval down and either leaves for the error page or starts the fetch
\* of /auth/exchange, which carries the cookie the browser holds
messageHandler(b, event, cookie) ==
  IF event.origin # AppOrigin THEN b
  ELSE IF event.error # ""
  THEN [b EXCEPT !.polling = FALSE, !.listening = FALSE,
                 !.main = [Goto("/") EXCEPT !.error = event.error],
                 !.ran.error = Ran(@)]
  ELSE IF event.code # "" /\ event.state # ""
  THEN [b EXCEPT !.polling = FALSE, !.listening = FALSE,
                 !.fetch = Flight("exchange",
                                 [method |-> "POST", code |-> event.code,
                                  state |-> event.state, error |-> "", redirect |-> ""],
                                 cookie),
                 !.ran.exchange = Ran(@)]
  ELSE b

\* variant: the interval callback removes the listener of a closed popup but
\* neither clears the interval nor navigates
checkClosed_NoNavigation(b) ==
  IF b.popupWindow = "closed"
  THEN [b EXCEPT !.listening = FALSE]
  ELSE b

\* the opener's interval callback
checkClosed(b) ==
  IF b.popupWindow = "closed"
  THEN [b EXCEPT !.polling = FALSE, !.listening = FALSE,
                 !.main = Goto(OrSlash(b.redirectTo)),
                 !.ran.fallback = Ran(@)]
  ELSE b

\* initializeAuth after its await: the reload of /auth with the state
\* received, or the error page when the answer carries no state or when
\* the fetch or the parsing of its answer threw (answered is FALSE)
InitializeContinuation(b, resp, answered) ==
  [b EXCEPT !.fetch = NoFlight,
            !.main = IF ~answered \/ resp.kind # "json"
                     THEN [Goto("/") EXCEPT !.error = "Failed to initialize authentication"]
                     ELSE IF resp.state # ""
                     THEN [Goto("/auth") EXCEPT !.state = resp.state,
                                                !.redirect = OrSlash(b.redirectTo)]
                     ELSE [Goto("/") EXCEPT !.error =
                             IF resp.error # "" THEN resp.error
                             ELSE "Failed to initialize authentication"]]

\* what the opener does with the exchange endpoint's answer, or with the
\* fetch or the parsing of its answer having thrown (answered is FALSE)
ExchangeContinuation(b, resp, answered) ==
  [b EXCEPT !.fetch = NoFlight,
            !.main = IF ~answered \/ resp.kind # "json"
                     THEN [Goto("/") EXCEPT !.error = "Failed to exchange authorization code"]
                     ELSE IF resp.success THEN Goto(OrSlash(resp.to))
                     ELSE [Goto("/") EXCEPT !.error =
                             IF resp.error # "" THEN resp.error
                             ELSE "Authentication failed"]]

\* a window that loads a page drops the page it showed: with the /auth page
\* of the main window go its listener, its interval, its pending effect,
\* the fetch it awaits and the messages not yet dispatched to it, with the
\* callback page of the popup its pending effect and its close timer
Leave(b, w) ==
  IF w = "main"
  THEN [b EXCEPT !.listening = FALSE, !.polling = FALSE, !.effect = "none",
                 !.fetch = NoFlight, !.inbox = {}]
  ELSE [b EXCEPT !.popupEffect = NoClient, !.closeTimer = FALSE]

\* ----------------------------------------------------------------- state
VARIABLES
  jar,            \* the session in the cookie the browser holds
  now,            \* Date.now()
  env,            \* process.env
  last,           \* the request handled last: what it read, did and answered
  gateRedirects,  \* automatic redirects the gate issued in a row
  browser         \* the windows of the browser and the opener's handshake

vars == <<jar, now, env, last, gateRedirects, browser>>

\* what a provider's token endpoint answered to the request handled, if called
NoAnswers == [p \in Providers |-> "none"]
Answer(called, out) == IF ~called THEN "none" ELSE IF out.ok THEN "ok" ELSE "fail"
ExchangeAnswer(p, resp, out) == [NoAnswers EXCEPT ![p] = Answer(resp.tokenCall, out)]
RefreshAnswers(resp, o1, o2) ==
  [p \in Providers |-> Answer(p \in resp.refreshCalls, IF p = "onshape" THEN o1 ELSE o2)]

Handled(op, p, req, pre, out, client, answers) ==
  [op |-> op, provider |-> p, req |-> req, pre |-> pre, session |-> out.session,
   resp |-> out.resp, client |-> client, answers |-> answers, at |-> now]

Init ==
  /\ jar = EmptySession
  /\ now = Tick
  /\ env \in EnvChoices
  /\ last = Handled("init", "onshape", NoReq, EmptySession, Out(EmptySession, BaseResp), NoClient,
                    NoAnswers)
  /\ gateRedirects = 0
  /\ browser = InitBrowser

\* time passes between requests
TickClock ==
  /\ now < MaxNow * Tick
  /\ now' = now + Tick
  /\ UNCHANGED <<jar, env, last, gateRedirects, browser>>

\* a request is served: the handler runs on the session of the request's
\* cookie and the browser applies the response's Set-Cookie
Serve(op, p, req, out, client, answers) ==
  /\ jar' = ApplySetCookie(jar, out)
  /\ last' = Handled(op, p, req, jar, out, client, answers)
  /\ UNCHANGED <<now, env, browser>>

OnshapeCallbackReq(codes, states, errors) ==
  \E code \in codes, state \in states, error \in errors, out \in ProviderOutcomes :
    LET o == OnshapeCallbackLoader(jar, code, state, error, env, now, out)
    IN /\ Serve("onshapeCallback", "onshape",
                [NoReq EXCEPT !.code = code, !.state = state, !.error = error],
                o, NoClient, ExchangeAnswer("onshape", o.resp, out))
       /\ UNCHANGED gateRedirects

ExchangeReq(methods, codes, states) ==
  \E method \in methods, code \in codes, state \in states, out \in ProviderOutcomes :
    LET o == ExchangeAction(jar, method, code, state, env, now, out)
    IN /\ Serve("exchange", "basecamp",
                [NoReq EXCEPT !.method = method, !.code = code, !.state = state],
                o, NoClient, ExchangeAnswer("basecamp", o.resp, out))
       /\ UNCHANGED gateRedirects

AuthCallbackReq(codes, states, errors) ==
  \E code \in codes, state \in states, error \in errors, out \in ProviderOutcomes,
     isPopup \in BOOLEAN :
    LET o == AuthCallbackLoader(jar, code, state, error, env, now, out)
    IN /\ Serve("authCallback", "basecamp",
                [NoReq EXCEPT !.code = code, !.state = state, !.error = error],
                o, AuthCallbackEffect(o.resp, isPopup),
                ExchangeAnswer("basecamp", o.resp, out))
       /\ UNCHANGED gateRedirects

AuthOnshapeReq(targets, nonces) ==
  \E redirectTo \in targets, nonce \in nonces :
    /\ Serve("authOnshape", "onshape", [NoReq EXCEPT !.redirect = redirectTo],
             AuthOnshapeLoader(jar, redirectTo, env, nonce), NoClient, NoAnswers)
    /\ UNCHANGED gateRedirects

AuthActionReq(methods, targets, nonces) ==
  \E method \in methods, redirectTo \in targets, nonce \in nonces :
    /\ Serve("authAction", "basecamp",
             [NoReq EXCEPT !.method = method, !.redirect = redirectTo],
             AuthAction(jar, method, redirectTo, nonce), NoClient, NoAnswers)
    /\ UNCHANGED gateRedirects

AuthReq(targets, states) ==
  \E redirectParam \in targets, stateParam \in states :
    /\ Serve("auth", "basecamp", [NoReq EXCEPT !.state = stateParam, !.redirect = redirectParam],
             AuthLoader(jar, redirectParam, stateParam, env), NoClient, NoAnswers)
    /\ UNCHANGED gateRedirects

AuthRedirectReq(targets, states) ==
  \E targetUrl \in targets, stateFromUrl \in states :
    /\ Serve("authRedirect", "basecamp", [NoReq EXCEPT !.state = stateFromUrl],
             AuthRedirectLoader(jar, targetUrl, stateFromUrl), NoClient, NoAnswers)
    /\ UNCHANGED gateRedirects

ReqLogout ==
  /\ Serve("logout", "onshape", NoReq, LogoutLoader(jar), NoClient, NoAnswers)
  /\ gateRedirects' = 0

\* the observer counts the gate's automatic redirects into the Onshape flow
\* that follow each other with no terminal answer of the gate in between
CountGate(resp) ==
  IF resp.kind = "redirect"
  THEN IF gateRedirects < MaxGateRedirects THEN gateRedirects + 1 ELSE gateRedirects
  ELSE 0

HomeReq(errors) ==
  \E error \in errors, o1 \in ProviderOutcomes, o2 \in ProviderOutcomes :
    LET o == HomeLoader(jar, error # "", error, env, now, o1, o2)
    IN /\ Serve("home", "onshape", [NoReq EXCEPT !.error = error], o, NoClient,
                RefreshAnswers(o.resp, o1, o2))
       /\ gateRedirects' = CountGate(o.resp)

\* the sign-in page is a terminal answer of the gate, its redirect leads on
\* to the page asked for
SigninReq(targets) ==
  \E urlRedirect \in targets :
    /\ Serve("signin", "basecamp", [NoReq EXCEPT !.redirect = urlRedirect],
             SigninLoader(jar, urlRedirect), NoClient, NoAnswers)
    /\ gateRedirects' = 0

MfgPartsReq(valids) ==
  \E validQuery \in valids, o2 \in ProviderOutcomes, api \in ApiOutcomes :
    LET o == MfgPartsLoader(jar, validQuery, env, now, o2, api)
    IN /\ Serve("mfgParts", "onshape", NoReq, o, NoClient, RefreshAnswers(o.resp, o2, o2))
       /\ gateRedirects' = CountGate(o.resp)

\* getValidOnshapeToken(request) / getValidBasecampToken(request), as the API
\* routes call them: the session object is read from the request and dropped
CallGetValidToken ==
  \E p \in Providers, out \in ProviderOutcomes :
    LET r == refreshTokenIfNeededWithSession(p, jar, env, now, out)
    IN /\ last' = [Handled("getValidToken", p, NoReq, jar, Out(r.session, BaseResp), NoClient,
                             [NoAnswers EXCEPT ![p] = Answer(r.called, out)])
                     EXCEPT !.resp.kind = r.result, !.resp.to = r.token,
                            !.resp.refreshCalls = IF r.called THEN {p} ELSE {}]
       /\ UNCHANGED <<jar, now, env, gateRedirects, browser>>

\* ------------------------------------------- the authorization flows
\* Every request of the two authorization flows, with every parameter.
ReqOnshapeCallback == OnshapeCallbackReq(Codes, StateParams, ErrorParams)
ReqExchange == ExchangeReq(Methods, Codes, StateParams)
ReqAuthCallback == AuthCallbackReq(Codes, StateParams, ErrorParams)
ReqAuthOnshape == AuthOnshapeReq(SignInTargets, Nonces)
ReqAuthAction == AuthActionReq(Methods, OauthTargets, Nonces)
ReqAuth == AuthReq(OauthTargets, StateParams)
ReqAuthRedirect == AuthRedirectReq({"", "https://launchpad.37signals.com/authorization/new"}, StateParams)

Next ==
  \/ ReqOnshapeCallback
  \/ ReqExchange
  \/ ReqAuthCallback
  \/ ReqAuthOnshape
  \/ ReqAuthAction
  \/ ReqAuth
  \/ ReqAuthRedirect
  \/ ReqLogout

Spec == Init /\ [][Next]_vars

\* --------------------------------------------------- the token vault
\* Token storage by well-formed callbacks, refresh on demand as the clock
\* advances, and clearing.
VaultAuthOnshape == AuthOnshapeReq({""}, {"n1"})
VaultOnshapeCallback == OnshapeCallbackReq({"c1"}, {"n1"}, {""})
VaultAuthAction == AuthActionReq({"POST"}, {""}, {"n1"})
VaultExchange == ExchangeReq({"POST"}, {"c1"}, {"n1"})
VaultAuthCallback == AuthCallbackReq({"c1"}, {"n1"}, {""})
VaultHome == HomeReq({""})

VaultNext ==
  \/ TickClock
  \/ VaultAuthOnshape
  \/ VaultOnshapeCallback
  \/ VaultAuthAction
  \/ VaultExchange
  \/ VaultAuthCallback
  \/ VaultHome
  \/ CallGetValidToken
  \/ ReqLogout

VaultSpec == Init /\ [][VaultNext]_vars

\* ---------------------------------------------------- the protected pages
GateAuthOnshape == AuthOnshapeReq(SignInTargets, {"n1"})
GateOnshapeCallback == OnshapeCallbackReq(Codes, {"n1"}, ErrorParams)
ReqHome == HomeReq(ErrorParams)
ReqMfgParts == MfgPartsReq(BOOLEAN)
ReqSignin == SigninReq(SignInTargets)

GateNext ==
  \/ GateAuthOnshape
  \/ GateOnshapeCallback
  \/ ReqHome
  \/ ReqMfgParts
  \/ ReqSignin
  \/ ReqLogout

GateSpec == Init /\ [][GateNext]_vars

\* -------------------------------------------------- the browser at work
\* window w has a page load under way for path
CanLoad(w, path) ==
  /\ browser[w].pending /\ browser[w].path = path
  /\ (w = "popup" => browser.popupWindow = "open")

\* the browser after window w received the response to its page load
Landed(w, resp) == [Leave(browser, w) EXCEPT ![w] = Shown(browser[w], resp)]

\* window w's page load is served, and the browser becomes b
Load(w, op, p, out, client, answers, b) ==
  /\ jar' = ApplySetCookie(jar, out)
  /\ last' = Handled(op, p, ReqOf(browser[w]), jar, out, client, answers)
  /\ browser' = b
  /\ UNCHANGED <<now, env>>

LoadHome(outs) ==
  \E w \in Windows, o1 \in outs, o2 \in outs :
    /\ CanLoad(w, "/")
    /\ LET o == HomeLoader(jar, browser[w].error # "", browser[w].error, env, now, o1, o2)
       IN /\ Load(w, "home", "onshape", o, NoClient, RefreshAnswers(o.resp, o1, o2),
                  Landed(w, o.resp))
          /\ gateRedirects' = CountGate(o.resp)

\* the query parameters of the parts page are the user's, valid or not
LoadMfgParts(valids, outs) ==
  \E w \in Windows, validQuery \in valids, o2 \in outs, api \in ApiOutcomes :
    /\ CanLoad(w, "/mfg/parts")
    /\ LET o == MfgPartsLoader(jar, validQuery, env, now, o2, api)
       IN /\ Load(w, "mfgParts", "onshape", o, NoClient, RefreshAnswers(o.resp, o2, o2),
                  Landed(w, o.resp))
          /\ gateRedirects' = CountGate(o.resp)

LoadSignin ==
  \E w \in Windows :
    /\ CanLoad(w, "/signin")
    /\ LET o == SigninLoader(jar, browser[w].redirect)
       IN /\ Load(w, "signin", "basecamp", o, NoClient, NoAnswers, Landed(w, o.resp))
          /\ gateRedirects' = 0

LoadAuthOnshape(nonces) ==
  \E w \in Windows, nonce \in nonces :
    /\ CanLoad(w, "/auth/onshape")
    /\ LET o == AuthOnshapeLoader(jar, browser[w].redirect, env, nonce)
       IN Load(w, "authOnshape", "onshape", o, NoClient, NoAnswers, Landed(w, o.resp))
    /\ UNCHANGED gateRedirects

\* Onshape's authorization page sends the window back to the callback URL,
\* with a code and the state it was given, or with an error
OnshapeAnswers(errors) ==
  \E w \in Windows, error \in errors :
    /\ CanLoad(w, OnshapeAuthorizeUrl)
    /\ browser' = [browser EXCEPT ![w] =
                     IF error = ""
                     THEN [Goto("/auth/onshape/callback") EXCEPT !.code = "c1",
                                                                !.state = browser[w].state]
                     ELSE [Goto("/auth/onshape/callback") EXCEPT !.error = error]]
    /\ UNCHANGED <<jar, now, env, last, gateRedirects>>

LoadOnshapeCallback(outs) ==
  \E w \in Windows, out \in outs :
    /\ CanLoad(w, "/auth/onshape/callback")
    /\ LET o == OnshapeCallbackLoader(jar, browser[w].code, browser[w].state,
                                      browser[w].error, env, now, out)
       IN Load(w, "onshapeCallback", "onshape", o, NoClient,
               ExchangeAnswer("onshape", o.resp, out), Landed(w, o.resp))
    /\ UNCHANGED gateRedirects

\* the main window loads /auth: the page's effect is to initialize the flow
\* when the loader built no authorization URL, else to open the popup
LoadAuth ==
  /\ CanLoad("main", "/auth")
  /\ LET o == AuthLoader(jar, browser.main.redirect, browser.main.state, env)
         b == Landed("main", o.resp)
     IN Load("main", "auth", "basecamp", o, NoClient, NoAnswers,
             IF o.resp.kind = "data"
             THEN [b EXCEPT !.effect = IF o.resp.state = "" THEN "init" ELSE "open",
                            !.redirectTo = o.resp.to,
                            !.delivered = NoEvent,
                            !.ran = NoneRan]
             ELSE b)
  /\ UNCHANGED gateRedirects

\* the effect of an /auth page without authorization URL calls
\* initializeAuth, which sends POST /auth { redirectTo } with the cookie the
\* browser holds
SendInitializeAuth ==
  /\ browser.effect = "init"
  /\ browser' = [browser EXCEPT
                   !.effect = "none",
                   !.fetch = Flight("authAction",
                                   [NoReq EXCEPT !.method = "POST",
                                                 !.redirect = browser.redirectTo],
                                   jar)]
  /\ UNCHANGED <<jar, now, env, last, gateRedirects>>

\* the fetch of initializeAuth settles: the action has run on the cookie
\* sent and the browser applies its Set-Cookie, or the fetch threw
InitializeAuth(nonces, delivereds) ==
  \E nonce \in nonces, delivered \in delivereds :
    /\ browser.fetch.op = "authAction"
    /\ LET f == browser.fetch
           o == AuthAction(f.cookie, f.req.method, f.req.redirect, nonce)
       IN IF delivered
          THEN /\ jar' = ApplySetCookie(jar, o)
               /\ last' = Handled("authAction", "basecamp", f.req, f.cookie, o, NoClient,
                                  NoAnswers)
               /\ browser' = InitializeContinuation(browser, o.resp, TRUE)
          ELSE /\ browser' = InitializeContinuation(browser, BaseResp, FALSE)
               /\ UNCHANGED <<jar, last>>
    /\ UNCHANGED <<now, env, gateRedirects>>

\* window.open: no popup (blocked) sends the opener on to redirectTo, a popup
\* starts at Basecamp's authorization URL and the opener registers its
\* message listener and its poll interval
OpenPopup(blockeds) ==
  \E blocked \in blockeds :
    /\ browser.effect = "open"
    /\ browser' = IF blocked
                  THEN [browser EXCEPT !.effect = "none",
                                       !.main = Goto(OrSlash(browser.redirectTo))]
                  ELSE [browser EXCEPT !.effect = "none",
                                       !.popupWindow = "open",
                                       !.closeTimer = FALSE,
                                       !.popup = [Goto(BasecampAuthorizeUrl)
                                                    EXCEPT !.state = browser.main.state],
                                       !.listening = TRUE,
                                       !.polling = TRUE]
    /\ UNCHANGED <<jar, now, env, last, gateRedirects>>

\* Basecamp's authorization page sends the popup back to the callback URL
BasecampAnswers(errors) ==
  \E error \in errors :
    /\ CanLoad("popup", BasecampAuthorizeUrl)
    /\ browser' = [browser EXCEPT !.popup =
                     IF error = ""
                     THEN [Goto("/auth/callback") EXCEPT !.code = "c1",
                                                        !.state = browser.popup.state]
                     ELSE [Goto("/auth/callback") EXCEPT !.error = error]]
    /\ UNCHANGED <<jar, now, env, last, gateRedirects>>

\* the popup loads the callback page: a redirect is followed, the page of a
\* data answer is shown with its effect still to run
LoadAuthCallback(outs) ==
  \E out \in outs :
    /\ CanLoad("popup", "/auth/callback")
    /\ LET o == AuthCallbackLoader(jar, browser.popup.code, browser.popup.state,
                                   browser.popup.error, env, now, out)
           e == AuthCallbackEffect(o.resp, TRUE)
       IN Load("popup", "authCallback", "basecamp", o, e,
               ExchangeAnswer("basecamp", o.resp, out),
               [Landed("popup", o.resp) EXCEPT !.popupEffect = e])
    /\ UNCHANGED gateRedirects

\* the effect of the callback page runs in the popup, whose opener is the
\* main window: it posts its message to the opener and sets the timer that
\* closes the popup
AuthCallbackPageEffect ==
  /\ browser.popupEffect.act # "none" /\ browser.popupWindow = "open"
  /\ LET e == browser.popupEffect
     IN browser' =
          IF e.act = "postMessage"
          THEN [browser EXCEPT !.popupEffect = NoClient,
                               !.inbox = @ \cup {Event(AppOrigin, e.code, e.state, e.error)},
                               !.closeTimer = TRUE]
          ELSE [browser EXCEPT !.popupEffect = NoClient,
                               !.popup = [Goto("/") EXCEPT !.error = e.error]]
  /\ UNCHANGED <<jar, now, env, last, gateRedirects>>

\* setTimeout(() => window.close(), 100): a closed popup shows no page and
\* runs no effect or timer
PopupTimerFires ==
  /\ browser.closeTimer /\ browser.popupWindow = "open"
  /\ browser' = [browser EXCEPT !.popupWindow = "closed", !.popup = NoNav,
                                !.popupEffect = NoClient, !.closeTimer = FALSE]
  /\ UNCHANGED <<jar, now, env, last, gateRedirects>>

\* the user closes a popup that is not about to close itself
UserClosesPopup ==
  /\ browser.popupWindow = "open" /\ ~browser.closeTimer
  /\ browser' = [browser EXCEPT !.popupWindow = "closed", !.popup = NoNav,
                                !.popupEffect = NoClient, !.closeTimer = FALSE]
  /\ UNCHANGED <<jar, now, env, last, gateRedirects>>

\* a window of another origin posts a message to the waiting opener
ForeignMessage(events) ==
  \E e \in events :
    /\ browser.listening /\ e \notin browser.inbox
    /\ browser' = [browser EXCEPT !.inbox = @ \cup {e}]
    /\ UNCHANGED <<jar, now, env, last, gateRedirects>>

\* the posted message e is dispatched: to the listener if one is registered
Dispatch(e) ==
  /\ e \in browser.inbox
  /\ browser' = LET b == [browser EXCEPT !.inbox = @ \ {e}, !.delivered = e]
                IN IF browser.listening THEN messageHandler(b, e, jar) ELSE b
  /\ UNCHANGED <<jar, now, env, last, gateRedirects>>

DeliverMessage == \E e \in browser.inbox : Dispatch(e)

\* the opener's fetch of /auth/exchange settles and the handler resumes:
\* the action has run on the cookie sent and the browser applies its
\* Set-Cookie, or the fetch threw
OpenerExchange(outs, delivereds) ==
  \E out \in outs, delivered \in delivereds :
    /\ browser.fetch.op = "exchange"
    /\ LET f == browser.fetch
           o == ExchangeAction(f.cookie, f.req.method, f.req.code, f.req.state, env, now, out)
       IN IF delivered
          THEN /\ jar' = ApplySetCookie(jar, o)
               /\ last' = Handled("exchange", "basecamp", f.req, f.cookie, o, NoClient,
                                  ExchangeAnswer("basecamp", o.resp, out))
               /\ browser' = ExchangeContinuation(browser, o.resp, TRUE)
          ELSE /\ browser' = ExchangeContinuation(browser, BaseResp, FALSE)
               /\ UNCHANGED <<jar, last>>
    /\ UNCHANGED <<now, env, gateRedirects>>

\* the interval fires after the popup was closed
PollFires ==
  /\ browser.polling /\ browser.popupWindow = "closed"
  /\ browser' = checkClosed(browser)
  /\ UNCHANGED <<jar, now, env, last, gateRedirects>>

\* the main window shows a page and no handshake is under way
Idle ==
  /\ ~browser.main.pending /\ browser.effect = "none"
  /\ ~browser.listening /\ ~browser.polling /\ browser.fetch = NoFlight

\* the user asks for a page in the main window
UserRequests(paths) ==
  \E path \in paths :
    /\ Idle
    /\ browser' = [browser EXCEPT !.main = Goto(path)]
    /\ UNCHANGED <<jar, now, env, last, gateRedirects>>

\* the user presses a button the page in the main window offers: the
\* sign-in page has "Connect Basecamp" and "Connect Onshape", each enabled
\* while its flag in the loader data is false, the home page has the link
\* "Connect Basecamp" while basecampAuthenticated is false in its data
UserOpensAuth(providers) ==
  \E p \in providers :
    /\ Idle
    /\ IF p = "basecamp"
       THEN /\ browser.main.path \in {"/signin", "/"}
            /\ ~browser.main.basecampAuth
            /\ browser' = [browser EXCEPT !.main =
                             IF browser.main.path = "/signin"
                             THEN [Goto("/auth") EXCEPT !.redirect = "/signin"]
                             ELSE Goto("/auth")]
       ELSE /\ browser.main.path = "/signin"
            /\ ~browser.main.onshapeAuth
            /\ browser' = [browser EXCEPT !.main =
                             [Goto("/auth/onshape") EXCEPT !.redirect = "/signin"]]
    /\ UNCHANGED <<jar, now, env, last, gateRedirects>>

ProtectedPages == {"/", "/mfg/parts"}

\* a token endpoint that grants, and one that grants or refuses
Granted == {t \in TokenResponses : t.access_token = "a1"}
GrantedOrRefused == Granted \cup {TokenFailure}

\* ------------------------------------------------- the popup handshake
\* The sign-in in the browser, entered from the sign-in page by either
\* button, with every answer of the providers, fetches that fail, a blocked
\* popup, a popup the user closes and messages of a foreign origin.
PopupNext ==
  \/ UserRequests({"/signin"})
  \/ UserOpensAuth(Providers)
  \/ LoadHome(GrantedOrRefused)
  \/ LoadMfgParts(BOOLEAN, GrantedOrRefused)
  \/ LoadSignin
  \/ LoadAuthOnshape({"n2"})
  \/ OnshapeAnswers(ErrorParams)
  \/ LoadOnshapeCallback(GrantedOrRefused)
  \/ LoadAuth
  \/ SendInitializeAuth
  \/ InitializeAuth({"n1"}, BOOLEAN)
  \/ OpenPopup(BOOLEAN)
  \/ BasecampAnswers(ErrorParams)
  \/ LoadAuthCallback(ProviderOutcomes)
  \/ AuthCallbackPageEffect
  \/ PopupTimerFires
  \/ UserClosesPopup
  \/ ForeignMessage(ForeignEvents)
  \/ DeliverMessage
  \/ OpenerExchange(ProviderOutcomes, BOOLEAN)
  \/ PollFires

PopupSpec == Init /\ [][PopupNext]_vars

\* the handshake with its timer: setInterval(..., 500) keeps calling the
\* interval callback for as long as the interval is registered
PollFairness == WF_vars(PollFires)
PopupLiveSpec == Init /\ [][PopupNext]_vars /\ PollFairness

\* ------------------------------------------------------- the journey
\* The way of a user through both flows: the user opens a protected page in
\* a fresh browser and may, where a page offers it, start the Basecamp flow;
\* both providers grant the authorization, their token endpoints answer a
\* code with tokens or refuse it, the popup is not blocked and the opener's
\* two fetches are answered.  What the browser and the providers do by
\* themselves happens eventually; what takes a click of the user may happen.
JourneyUserRequests == browser.main = NoNav /\ UserRequests(ProtectedPages)
JourneyLoadHome == LoadHome(Granted)
JourneyUserOpensAuth == UserOpensAuth(Providers)
JourneyLoadMfgParts == LoadMfgParts(BOOLEAN, Granted)
JourneyLoadAuthOnshape == LoadAuthOnshape(Nonces)
JourneyOnshapeAnswers == OnshapeAnswers({""})
JourneyLoadOnshapeCallback == LoadOnshapeCallback(GrantedOrRefused)
JourneyInitializeAuth == InitializeAuth(Nonces, {TRUE})
JourneyOpenPopup == OpenPopup({FALSE})
JourneyBasecampAnswers == BasecampAnswers({""})
JourneyLoadAuthCallback == LoadAuthCallback(GrantedOrRefused)
JourneyOpenerExchange == OpenerExchange(GrantedOrRefused, {TRUE})

JourneyNext ==
  \/ JourneyUserRequests
  \/ JourneyUserOpensAuth
  \/ JourneyLoadHome
  \/ JourneyLoadMfgParts
  \/ LoadSignin
  \/ JourneyLoadAuthOnshape
  \/ JourneyOnshapeAnswers
  \/ JourneyLoadOnshapeCallback
  \/ LoadAuth
  \/ SendInitializeAuth
  \/ JourneyInitializeAuth
  \/ JourneyOpenPopup
  \/ JourneyBasecampAnswers
  \/ JourneyLoadAuthCallback
  \/ AuthCallbackPageEffect
  \/ PopupTimerFires
  \/ DeliverMessage
  \/ JourneyOpenerExchange
  \/ PollFires

\* every page load, effect, timer and fetch of the journey comes to its end
JourneyFairness ==
  /\ WF_vars(JourneyLoadHome)
  /\ WF_vars(JourneyLoadMfgParts)
  /\ WF_vars(LoadSignin)
  /\ WF_vars(JourneyLoadAuthOnshape)
  /\ WF_vars(JourneyOnshapeAnswers)
  /\ WF_vars(JourneyLoadOnshapeCallback)
  /\ WF_vars(LoadAuth)
  /\ WF_vars(SendInitializeAuth)
  /\ WF_vars(JourneyInitializeAuth)
  /\ WF_vars(JourneyOpenPopup)
  /\ WF_vars(JourneyBasecampAnswers)
  /\ WF_vars(JourneyLoadAuthCallback)
  /\ WF_vars(AuthCallbackPageEffect)
  /\ WF_vars(PopupTimerFires)
  /\ WF_vars(DeliverMessage)
  /\ WF_vars(JourneyOpenerExchange)
  /\ WF_vars(PollFires)

JourneySpec == Init /\ [][JourneyNext]_vars /\ JourneyFairness

\* ------------------------------------------------------ concurrent tabs
\* Requests of several tabs on the one cookie: a tab sends a request with the
\* cookie the browser holds, the server handles it on the session of that
\* cookie, and when the response arrives the browser applies its Set-Cookie
\* to the jar, whatever other responses arrived in between.
Send(t, op, req) ==
  /\ browser.flights[t] = NoFlight
  /\ browser' = [browser EXCEPT !.flights[t] = Flight(op, req, jar)]
  /\ UNCHANGED <<jar, now, env, last, gateRedirects>>

Receive(t, op, p, out, client, answers) ==
  /\ browser.flights[t].op = op
  /\ jar' = ApplySetCookie(jar, out)
  /\ last' = Handled(op, p, browser.flights[t].req, browser.flights[t].cookie, out, client,
                     answers)
  /\ browser' = [browser EXCEPT !.flights[t] = NoFlight]
  /\ UNCHANGED <<now, env>>

\* the first tab loads the protected page, the second one is in the Onshape
\* flow, and either may post to the exchange endpoint
SendHome == Send("tab1", "home", NoReq)
ReceiveHome ==
  \E t \in Tabs, o1 \in GrantedOrRefused, o2 \in GrantedOrRefused :
    LET o == HomeLoader(browser.flights[t].cookie, FALSE, "", env, now, o1, o2)
    IN /\ Receive(t, "home", "onshape", o, NoClient, RefreshAnswers(o.resp, o1, o2))
       /\ gateRedirects' = CountGate(o.resp)

SendOnshapeCallback ==
  Send("tab2", "onshapeCallback", [NoReq EXCEPT !.code = "c1", !.state = "n1"])
ReceiveOnshapeCallback ==
  \E t \in Tabs, out \in GrantedOrRefused :
    LET f == browser.flights[t]
        o == OnshapeCallbackLoader(f.cookie, f.req.code, f.req.state, f.req.error, env, now, out)
    IN /\ Receive(t, "onshapeCallback", "onshape", o, NoClient,
                  ExchangeAnswer("onshape", o.resp, out))
       /\ UNCHANGED gateRedirects

SendExchange ==
  \E t \in Tabs :
    Send(t, "exchange", [NoReq EXCEPT !.method = "POST", !.code = "c1", !.state = "n1"])
ReceiveExchange ==
  \E t \in Tabs, out \in GrantedOrRefused :
    LET f == browser.flights[t]
        o == ExchangeAction(f.cookie, f.req.method, f.req.code, f.req.state, env, now, out)
    IN /\ Receive(t, "exchange", "basecamp", o, NoClient,
                  ExchangeAnswer("basecamp", o.resp, out))
       /\ UNCHANGED gateRedirects

\* the initiators are requests like the others: the sign-in page of the
\* second tab asks for /auth/onshape?redirect=/signin (its Onshape button),
\* the /auth page of the first tab, opened by the home page's link, posts
\* { redirectTo: "/" } to /auth
SendAuthOnshape == Send("tab2", "authOnshape", [NoReq EXCEPT !.redirect = "/signin"])
ReceiveAuthOnshape ==
  \E t \in Tabs :
    LET f == browser.flights[t]
    IN /\ Receive(t, "authOnshape", "onshape",
                  AuthOnshapeLoader(f.cookie, f.req.redirect, env, "n1"), NoClient, NoAnswers)
       /\ UNCHANGED gateRedirects

SendAuthAction ==
  Send("tab1", "authAction", [NoReq EXCEPT !.method = "POST", !.redirect = "/"])
ReceiveAuthAction ==
  \E t \in Tabs :
    LET f == browser.flights[t]
    IN /\ Receive(t, "authAction", "basecamp",
                  AuthAction(f.cookie, f.req.method, f.req.redirect, "n1"),
                  NoClient, NoAnswers)
       /\ UNCHANGED gateRedirects

TabsNext ==
  \/ SendAuthOnshape
  \/ ReceiveAuthOnshape
  \/ SendAuthAction
  \/ ReceiveAuthAction
  \/ SendHome
  \/ ReceiveHome
  \/ SendOnshapeCallback
  \/ ReceiveOnshapeCallback
  \/ SendExchange
  \/ ReceiveExchange

\* on a fully configured server
TabsInit == Init /\ env = EnvFull
TabsSpec == TabsInit /\ [][TabsNext]_vars

\* ------------------------------------------------- the resume target
\* The requests of a sign-in as the pages issue them: the parts page sends an
\* unauthenticated user to /auth/onshape?redirect=/mfg/parts, the sign-in
\* page is opened with or without a redirect parameter, and its two buttons
\* lead to /auth/onshape?redirect=/signin and /auth?redirect=/signin.
ResumeMfgParts == MfgPartsReq({TRUE})
ResumeSignin == SigninReq({"", "/mfg/parts", "/projects"})
ResumeAuthOnshape == AuthOnshapeReq({"/mfg/parts", "/signin"}, {"n1"})
ResumeOnshapeCallback == OnshapeCallbackReq({"c1"}, {"n1"}, ErrorParams)
ResumeAuth == AuthReq({"/signin"}, {"", "n1"})
ResumeAuthAction == AuthActionReq({"POST"}, {"/signin"}, {"n1"})
ResumeExchange == ExchangeReq({"POST"}, {"c1"}, {"n1"})

ResumeNext ==
  \/ ResumeMfgParts
  \/ ResumeSignin
  \/ ResumeAuthOnshape
  \/ ResumeOnshapeCallback
  \/ ResumeAuth
  \/ ResumeAuthAction
  \/ ResumeExchange
  \/ ReqLogout

ResumeSpec == Init /\ [][ResumeNext]_vars

\* ================================================================ claims
\* the request handled last is a callback or exchange request that presents
\* an authorization code (no error parameter, the exchange by POST)
CodeRequest ==
  /\ last.op \in {"onshapeCallback", "exchange", "authCallback"}
  /\ last.req.method = (IF last.op = "exchange" THEN "POST" ELSE "GET")
  /\ last.req.code # ""
  /\ last.req.error = ""

\* the OAuth variables of the request's provider are all configured
Configured ==
  /\ env[last.provider].clientId /\ env[last.provider].clientSecret
  /\ env[last.provider].redirectUri

\* the nonce that was pending for the request's provider when it arrived
PendingNonce == Nonce(last.pre, last.provider)

\* the response is the terminal invalid-state error
InvalidStateError(resp) ==
  \/ resp.kind = "json" /\ resp.status = 400 /\ ~resp.success
       /\ resp.error = "Invalid state parameter"
  \/ resp.kind = "redirect" /\ resp.to = "/?error"
       /\ resp.error = "Invalid state parameter. Please try again."

\* C1: a callback or exchange request whose state differs from the pending
\* nonce, while a nonce is pending for that provider, ends in the terminal
\* invalid-state error (for the popup's callback page: in the relay of code
\* and state to the opener, whose exchange request decides) and calls no
\* token endpoint.
C1_MismatchIsInvalidState ==
  (CodeRequest /\ last.req.state # "" /\ PendingNonce # "" /\ last.req.state # PendingNonce)
    => /\ ~last.resp.tokenCall
       /\ \/ InvalidStateError(last.resp)
          \/ last.op = "authCallback" /\ last.client.act = "postMessage"
               /\ last.client.state = last.req.state

\* C2: after a callback or exchange request whose state equals the pending
\* nonce (on a configured server, so that the token exchange is attempted),
\* the session the browser holds no longer contains that nonce, whether the
\* exchange succeeded or failed.
C2_NonceConsumedOnMatch ==
  (CodeRequest /\ Configured /\ PendingNonce # "" /\ last.req.state = PendingNonce)
    => Nonce(jar, last.provider) = ""

\* C3: of two requests that carry the same valid (code, state) one after the
\* other, the first performs the token exchange and the second is rejected
\* with the invalid-state error without any token exchange.
C3_ReplayRejected ==
  [][(/\ CodeRequest /\ PendingNonce # "" /\ last.req.state = PendingNonce
      /\ last'.op = last.op /\ last'.req = last.req
      /\ Configured)
     => (/\ last.resp.tokenCall
         /\ ~last'.resp.tokenCall
         /\ InvalidStateError(last'.resp))]_vars

\* C4: a callback or exchange request that carries a code (and a state)
\* while the session holds no pending nonce for that provider resets the
\* session and restarts the authorization flow; it is never answered with a
\* terminal error.
C4_NoNonceRestarts ==
  (CodeRequest /\ last.req.state # "" /\ PendingNonce = "")
    => /\ last.resp.kind = "redirect" /\ last.resp.to = "/auth/onshape"
       /\ last.resp.error = ""
       /\ jar = EmptySession

\* the token endpoint was called for an authorization code and refused
ExchangeFailed == last.resp.tokenCall /\ last.answers[last.provider] = "fail"

\* C5: after a token exchange that fails at the provider the browser's
\* session is destroyed entirely (no tokens of either provider, no pending
\* nonce) and a terminal error is surfaced.
C5_FailedExchangeDestroysSession ==
  ExchangeFailed => (jar = EmptySession /\ last.resp.error # "")

\* a provider's three token keys are all present or all absent
TripleAtomic(s, p) ==
  \/ Triple(s, p)[1] # "" /\ Triple(s, p)[2] # "" /\ Triple(s, p)[3] # 0
  \/ Triple(s, p) = <<"", "", 0>>

\* the refresh-token exchange of provider p was made and refused
RefreshFailed(p) == p \in last.resp.refreshCalls /\ last.answers[p] = "fail"

\* C6: in every session reachable through token storage, refresh and
\* clearing, in the browser's cookie as in the session object a handler
\* leaves behind, each provider's access token, refresh token and expiresAt
\* are all present or all absent.
C6_TokenTripleAtomic ==
  \A p \in Providers : TripleAtomic(jar, p) /\ TripleAtomic(last.session, p)

\* a refresh of Onshape failed and cleared its keys while Basecamp's tokens
\* stay stored
C6_Witness ==
  /\ RefreshFailed("onshape")
  /\ Triple(last.pre, "onshape")[3] # 0
  /\ Triple(last.session, "basecamp")[1] # ""

\* C7: getValidToken never returns an access token whose expiresAt is
\* earlier than the current time, and whenever the stored token is within
\* 5 minutes of its expiry the token endpoint is called before a token is
\* returned.
C7_ValidTokenNotExpired ==
  (last.op = "getValidToken" /\ last.resp.kind = "token")
    => /\ last.resp.to = Triple(last.session, last.provider)[1]
       /\ Triple(last.session, last.provider)[3] >= last.at
       /\ (last.at >= Triple(last.pre, last.provider)[3] - 5 * 60 * 1000
             => last.provider \in last.resp.refreshCalls)

\* getValidToken found an expired token, refreshed it and returned the new one
C7_Witness ==
  /\ last.op = "getValidToken" /\ last.resp.kind = "token"
  /\ Triple(last.pre, last.provider)[1] # ""
  /\ Triple(last.pre, last.provider)[3] < last.at
  /\ last.provider \in last.resp.refreshCalls

\* C8: when the refresh-token exchange fails, the refresh operation removes
\* that provider's three token keys from the session and throws: the token
\* getter's caller sees the exception, and in the home loader the refresh
\* that would follow in the same try block is not made.
C8_FailedRefreshClearsAndThrows ==
  \A p \in Providers :
    (last.op \in {"getValidToken", "home"} /\ RefreshFailed(p))
      => /\ Triple(last.session, p) = <<"", "", 0>>
         /\ last.op = "getValidToken" => last.resp.kind = "throw"
         /\ (last.op = "home" /\ p = "onshape") => "basecamp" \notin last.resp.refreshCalls

\* the Basecamp refresh was refused for a session that held Basecamp tokens
C8_Witness ==
  /\ last.op = "getValidToken" /\ RefreshFailed("basecamp")
  /\ Triple(last.pre, "basecamp")[1] # ""

\* C9: a failed refresh for one provider leaves the other provider's three
\* token keys unchanged, in the cookie and in the session object (where the
\* other provider's keys change only by its own successful refresh in the
\* same request).
C9_FailedRefreshIsolated ==
  \A p \in Providers :
    RefreshFailed(p)
      => /\ Triple(jar, Other(p)) = Triple(last.pre, Other(p))
         /\ IF last.answers[Other(p)] = "ok"
            THEN Triple(last.session, Other(p))[1] # ""
            ELSE Triple(last.session, Other(p)) = Triple(last.pre, Other(p))

\* the Basecamp refresh failed while Onshape tokens were stored
C9_Witness ==
  /\ RefreshFailed("basecamp")
  /\ Triple(last.pre, "onshape")[1] # ""
  /\ Triple(last.session, "onshape") = Triple(last.pre, "onshape")

\* C10: while Onshape stays unauthenticated, the protected pages issue at
\* most 2 automatic redirects into its authorization flow in a row before a
\* terminal error is returned instead.
C10_GateRedirectsBounded == gateRedirects <= GateLimit

\* the request handled last is one a route answered
RouteRequest == last.op \notin {"init", "getValidToken"}

\* C15: every response of a route that changed the session carries a
\* Set-Cookie header with the serialized session, so that the browser holds
\* the session with every write the handler made.
C15_ChangedSessionIsCommitted ==
  (RouteRequest /\ last.session # last.pre)
    => (last.resp.setCookie = "commit" /\ jar = last.session)

\* the request handled last is a page load of an initiator (GET /auth/onshape,
\* GET /auth) for a provider whose access token is already stored
InitiatorShortCircuit ==
  /\ last.op \in {"authOnshape", "auth"}
  /\ Triple(last.pre, last.provider)[1] # ""

\* C16: an initiator called for a provider that already has a stored access
\* token generates no nonce, commits the session with every field unchanged
\* and answers with a redirect to the target.
C16_ShortCircuitLeavesSession ==
  InitiatorShortCircuit
    => /\ last.resp.kind = "redirect" /\ last.resp.setCookie = "commit"
       /\ last.resp.state = ""
       /\ last.session = last.pre
       /\ jar = last.pre

\* the request handled last starts a flow (GET /auth/onshape, POST /auth) for
\* a provider that has no token yet and whose nonce is already pending
InitiatorWithPendingNonce ==
  /\ \/ last.op = "authOnshape"
     \/ last.op = "authAction" /\ last.req.method = "POST"
  /\ Triple(last.pre, last.provider)[1] = ""
  /\ PendingNonce # ""

\* C17: an initiator called while a nonce is pending for its provider keeps
\* that nonce in the session and puts the same nonce into the authorization
\* URL it returns.
C17_PendingNonceReused ==
  InitiatorWithPendingNonce
    => /\ Nonce(jar, last.provider) = PendingNonce
       /\ last.resp.state = PendingNonce

\* C18: a request of the home page that carries an error parameter is
\* answered with the error page, not with a redirect into an authorization
\* flow, and leaves the browser's session without redirect-attempt counter.
C18_ErrorParamStopsGate ==
  (last.op = "home" /\ last.req.error # "")
    => /\ last.resp.kind = "data" /\ last.resp.error = last.req.error
       /\ jar.onshapeAuthRedirectCount = 0

\* the gate's terminal outcomes: the home page answered with a page (the
\* page itself, an explicit error, the tripped bound) or the Onshape
\* callback stored tokens
GateTerminal ==
  \/ last.op = "home" /\ last.resp.kind = "data"
  \/ last.op = "onshapeCallback" /\ last.resp.tokenCall /\ last.answers["onshape"] = "ok"

\* C19: after every terminal outcome of the gate the session the browser
\* holds has no redirect-attempt counter.
C19_CounterOnlyWhileLooping ==
  GateTerminal => jar.onshapeAuthRedirectCount = 0

\* what the home page's data reports about provider p
ReportedAuthenticated(p) ==
  IF p = "onshape" THEN last.resp.onshapeAuthenticated ELSE last.resp.basecampAuthenticated

\* C20: when the home loader finds both providers authenticated and the
\* refresh of one provider's token fails, the loader does not throw and its
\* data reports that provider as not authenticated.
C20_FailedRefreshReportsNeedAuth ==
  \A p \in Providers :
    (/\ last.op = "home"
     /\ isOnshapeAuthenticated(last.pre) /\ isBasecampAuthenticated(last.pre)
     /\ RefreshFailed(p))
      => (last.resp.kind = "data" /\ ~ReportedAuthenticated(p))

\* a protected page is rendered in a window while both providers' tokens
\* are stored
BothAuthenticatedRendered ==
  /\ isOnshapeAuthenticated(jar) /\ isBasecampAuthenticated(jar)
  /\ \E w \in Windows :
       /\ browser[w].path \in ProtectedPages /\ ~browser[w].pending
       /\ browser[w].error = ""
       /\ (w = "popup" => browser.popupWindow = "open")

\* the user, holding an empty session, has asked for a protected page on a
\* configured server
JourneyStarted ==
  /\ jar = EmptySession /\ env = EnvFull
  /\ browser.main.pending /\ browser.main.path \in ProtectedPages
  /\ browser.popupWindow = "none"

\* a token endpoint refused the request handled last
ProviderRefused == \E p \in Providers : last.answers[p] = "fail"

\* C11: from an empty session and a request of a protected page, the gate's
\* redirects alone (into the Onshape flow, then after its tokens are stored
\* into the Basecamp flow) lead to the state where both providers are
\* authenticated and the protected page is rendered, unless a provider
\* refuses a token exchange on the way.
C11_GateLeadsToBothAuthenticated ==
  JourneyStarted ~> (BothAuthenticatedRendered \/ ProviderRefused)

\* C12: the page load of the popup's callback page calls no token endpoint
\* and writes no token to the session; tokens are exchanged by the opener's
\* request to the exchange endpoint only.
C12_CallbackPageOnlyRelays ==
  last.op = "authCallback"
    => /\ ~last.resp.tokenCall
       /\ Triple(last.session, "basecamp") = Triple(last.pre, "basecamp")
       /\ Triple(jar, "basecamp") = Triple(last.pre, "basecamp")

\* how many continuations the opener ran since it opened the popup
Continuations == browser.ran.exchange + browser.ran.fallback + browser.ran.error

\* C13: whichever of the relayed message and the popup-closed poll fires
\* first removes both the message listener and the poll interval, so the
\* opener runs at most one continuation.
C13_OneContinuation ==
  /\ Continuations <= 1
  /\ Continuations = 1 => (~browser.listening /\ ~browser.polling)

\* the relayed code reached the opener first and started the exchange; the
\* popup has closed since and the poll has not fired
C13_Witness ==
  /\ browser.ran.exchange = 1 /\ browser.popupWindow = "closed"
  /\ browser.delivered.origin = AppOrigin /\ browser.delivered.code # ""

\* a message of a foreign origin is dispatched in this step
ForeignDelivery == \E e \in browser.inbox : e.origin # AppOrigin /\ Dispatch(e)

\* C14: the dispatch of a message whose origin is not the application's own
\* leaves the opener as it was: listener and interval stay registered, no
\* exchange request is started, no window navigates, the session is the same.
C14_ForeignMessageIgnored ==
  [][ForeignDelivery
       => /\ [browser' EXCEPT !.inbox = browser.inbox, !.delivered = browser.delivered] = browser
          /\ jar' = jar /\ last' = last]_vars

\* a foreign message that carried a code was dispatched to the waiting
\* opener, which still waits
C14_Witness ==
  /\ browser.delivered.origin = ForeignOrigin /\ browser.delivered.code # ""
  /\ browser.listening /\ browser.polling
  /\ browser.ran = NoneRan /\ browser.fetch = NoFlight

\* the request handled last is a provider's redirect back to a callback
\* route with an error parameter, while a nonce was pending for the provider
ErrorCallback ==
  /\ last.op \in {"onshapeCallback", "authCallback"}
  /\ last.req.error # ""
  /\ PendingNonce # ""

\* the provider's error is surfaced: by a redirect to the error page, or by
\* the callback page that relays it to the opener or leaves for the error page
ErrorSurfaced ==
  \/ last.resp.kind = "redirect" /\ last.resp.to = "/?error"
       /\ last.resp.error = last.req.error
  \/ last.client.act \in {"postMessage", "navigate:/?error"}
       /\ last.client.error = last.req.error /\ last.client.code = ""

\* C21: when the provider redirects back with an error parameter the flow
\* ends in a terminal failure that is surfaced, no token endpoint is called,
\* and the nonce that was pending for that provider is no longer in the
\* session the browser holds.
C21_ErrorCallbackClearsNonce ==
  ErrorCallback
    => /\ ErrorSurfaced
       /\ ~last.resp.tokenCall
       /\ Nonce(jar, last.provider) = ""

\* the request is failed with a 500-class error: the handler throws, or it
\* answers with a 5xx status
ServerError(resp) ==
  \/ resp.kind = "throw"
  \/ resp.kind = "json" /\ resp.status >= 500

\* C22: on a server where the client id, the client secret or the redirect
\* URI of the provider is not configured, a callback or exchange request
\* that presents a code with the pending nonce is failed with a 500-class
\* error: no token endpoint is called, the session stays as it was, and the
\* page does not hand the code on to another exchange path.
C22_MissingConfigFails ==
  (CodeRequest /\ ~Configured /\ PendingNonce # "" /\ last.req.state = PendingNonce)
    => /\ ServerError(last.resp)
       /\ ~last.resp.tokenCall
       /\ last.client.code = ""

\* C23: once a refresh attempt for a provider has failed, the request that
\* is handled next makes no refresh call to that provider's token endpoint:
\* the invalidation is in the session that request reads, whichever route
\* made the failed attempt (re-authentication takes a callback or exchange
\* request, which makes no refresh call itself).
C23_FailedRefreshNotRepeated ==
  [][\A p \in Providers :
       (RefreshFailed(p) /\ last' # last) => p \notin last'.resp.refreshCalls]_vars

\* C24: when the response to a gate evaluation arrives after the response
\* of a callback or exchange request that committed its session, and the
\* gate's Set-Cookie changes the browser's session, each provider's stored
\* tokens and each pending nonce are in the session as that request left
\* them, however the requests of the concurrent tabs were interleaved.
C24_GateCommitKeepsSession ==
  [][(/\ last.op \in {"onshapeCallback", "exchange"} /\ last.resp.setCookie = "commit"
      /\ last'.op = "home" /\ jar' # jar)
       => \A p \in Providers : /\ Triple(jar', p) = Triple(jar, p)
                               /\ Nonce(jar', p) = Nonce(jar, p)]_vars

\* C25: when a callback or exchange request has called the provider's token
\* endpoint for an authorization code, the request handled next (so with no
\* new authorization flow started in between) makes no token call for the
\* same code and state: one code is exchanged at most once, and a failed
\* exchange is not followed by another attempt.
C25_OneExchangePerCode ==
  [][(/\ last.op \in {"authCallback", "exchange"} /\ last.resp.tokenCall
      /\ last' # last
      /\ last'.op \in {"authCallback", "exchange"}
      /\ last'.req.code = last.req.code /\ last'.req.state = last.req.state)
       => ~last'.resp.tokenCall]_vars

\* the popup is closed and the opener's interval is still registered: no
\* valid relayed message has reached the opener's handler
ClosedWhileWaiting == browser.popupWindow = "closed" /\ browser.polling

\* the opener has left the waiting state: listener and interval are gone
\* and one of its continuations navigates the main window
OpenerLeftWaiting ==
  /\ ~browser.polling /\ ~browser.listening
  /\ Continuations >= 1

\* C26: when the popup is closed while the opener still waits, the opener
\* eventually leaves the waiting state, by the interval callback that sends
\* the main window to redirectTo (or by a relayed message that was posted
\* before the popup closed); it never waits forever.
C26_ClosedPopupEndsWaiting == ClosedWhileWaiting ~> OpenerLeftWaiting

\* the user closed the popup before any message was relayed and the interval
\* callback has sent the main window on to redirectTo
C26_Witness ==
  /\ browser.popupWindow = "closed" /\ browser.ran = [NoneRan EXCEPT !.fallback = 1]
  /\ browser.delivered = NoEvent /\ browser.inbox = {}
  /\ ~browser.polling /\ ~browser.listening
  /\ browser.main = Goto(OrSlash(browser.redirectTo))

\* the request handled in this step belongs to a provider's authorization
\* flow: an initiator, a callback or the exchange endpoint
FlowStep ==
  /\ last' # last
  /\ last'.op \in {"authOnshape", "onshapeCallback", "auth", "authAction", "exchange"}

\* C27: the post-auth redirect target that is recorded in the session stays
\* the recorded one while a provider's flow runs: no initiator, callback or
\* exchange request replaces it by another target, so that the sign-in page
\* sends the user there once both providers are authenticated.
C27_FlowKeepsRecordedTarget ==
  [][(FlowStep /\ jar.signInRedirect # "") => jar'.signInRedirect = jar.signInRedirect]_vars

\* the request handled last exchanged its code for tokens
ExchangeSucceeded == CodeRequest /\ last.resp.tokenCall /\ last.answers[last.provider] = "ok"

\* the resume target stored for the request's provider alone, when the
\* request arrived (oauthRedirect; the Onshape flow stores none)
StoredResumeTarget == IF last.provider = "basecamp" THEN last.pre.oauthRedirect ELSE ""

\* the provider's redirect marker in a session: the stored resume target of
\* the Basecamp flow, the redirect counter of the Onshape flow
RedirectMarkerCleared(s) ==
  IF last.provider = "basecamp" THEN s.oauthRedirect = "" ELSE s.onshapeAuthRedirectCount = 0

\* the targets the resolution order allows: the provider's stored resume
\* target; without one the sign-in page, which is due whenever a sign-in is
\* under way (signInRedirect is stored); "/" only when there is neither
AllowedTargets ==
  IF StoredResumeTarget # "" THEN {StoredResumeTarget}
  ELSE IF last.pre.signInRedirect # "" THEN {"/signin"}
  ELSE {"/signin", "/"}

\* C28: after a successful token exchange the browser's session holds the
\* provider's token triple, no pending nonce and no redirect marker of that
\* provider, and the navigation target returned is the provider's stored
\* resume target if there is one, else the shared sign-in page, else "/".
C28_SuccessfulExchangeResolvesTarget ==
  ExchangeSucceeded
    => /\ Triple(jar, last.provider)[1] # "" /\ Triple(jar, last.provider)[2] # ""
       /\ Nonce(jar, last.provider) = ""
       /\ RedirectMarkerCleared(jar)
       /\ last.resp.to \in AllowedTargets

\* provider p's pending nonce is set or replaced in this step
NonceWritten(p) == Nonce(jar', p) # Nonce(jar, p) /\ Nonce(jar', p) # ""

\* the request handled in this step is p's initiator, and the nonce it
\* answers with is the one its random generator produced
GeneratedByInitiator(p) ==
  /\ last'.op = (IF p = "onshape" THEN "authOnshape" ELSE "authAction")
  /\ last'.resp.state = Nonce(jar', p)
  /\ last'.req.state = ""

\* C29: a pending nonce enters the browser's session only as the value an
\* initiator generated with its random generator in that request; no request
\* parameter creates or replaces a pending nonce.
C29_NonceOnlyGenerated ==
  [][\A p \in Providers : NonceWritten(p) => GeneratedByInitiator(p)]_vars


\* C30: of two exchange requests with the same valid code and state that
\* were both sent with the cookie in which the nonce is pending, only one
\* calls the provider's token endpoint: when the first has exchanged the
\* code and stored the tokens, the second is answered without a token call.
C30_ConcurrentExchangeOnce ==
  [][\A t \in Tabs :
       (/\ last.op = "exchange" /\ last.resp.tokenCall /\ last.resp.success
        /\ browser.flights[t] = Flight("exchange", last.req, last.pre)
        /\ browser'.flights[t] = NoFlight)
         => ~last'.resp.tokenCall]_vars

====
